---------------------------- MODULE Spec2Model ----------------------------
(***************************************************************************)
(* A model of verita's result scripts: scripts/summary.py (load_results,   *)
(* the single-run and comparison reports, main) and scripts/analyze.py     *)
(* (Project, Run).                                                         *)
(*                                                                         *)
(* Representation.  A Python str is a sequence of one-character strings,   *)
(* so that len(), slicing, startswith(), replace() and the code-point      *)
(* ordering used by sorted() are computed and not assumed.  A value that   *)
(* may be None is a sequence of length at most one: <<>> is None and <<v>> *)
(* is the value v.  A JSON object is a function from key strings to        *)
(* values; an absent key is a key outside its DOMAIN.                      *)
(***************************************************************************)
EXTENDS Integers, Sequences, FiniteSets, TLC

VARIABLES
    dirs,      \* args.dirs: 1 or 2 directories, each a function stem -> file
    pc,        \* where main() is: "load", "report", "done", "aborted"
    di,        \* index of the directory load_results is working on
    todo,      \* file stems of that directory still to be read, in glob order
    results,   \* per directory, the dict load_results returns: <<[stem, rec]>>
    out,       \* the lines printed to standard output so far
    err        \* the exception that ended the program, "" when none

vars == <<dirs, pc, di, todo, results, out, err>>

-----------------------------------------------------------------------------
(* Python values *)

None == <<>>
Some(v) == <<v>>
IsNone(o) == o = <<>>
Val(o) == o[1]

\* dict.get(k, default)
Get(d, k, default) == IF k \in DOMAIN d THEN d[k] ELSE default

\* dict.get(k): None when the key is absent
GetOpt(d, k) == IF k \in DOMAIN d THEN Some(d[k]) ELSE None

Max(a, b) == IF a >= b THEN a ELSE b

RECURSIVE MaxOf(_, _)
\* max(f(x) for x in seq) for a non-empty seq of numbers
MaxOf(seq, i) ==
    IF i = Len(seq) THEN seq[i] ELSE Max(seq[i], MaxOf(seq, i + 1))

-----------------------------------------------------------------------------
(* str *)

\* The characters that occur in names, stems and paths, in code-point order.
Alphabet ==
    <<"-", ".", "/", "0", "1", "2", "A", "B", "C", "a", "b", "c", "j", "l",
      "n", "o", "p", "q", "r", "s", "t", "x">>

Ord(c) == CHOOSE i \in 1..Len(Alphabet) : Alphabet[i] = c

RECURSIVE StrLessFrom(_, _, _)
StrLessFrom(s, t, i) ==
    IF i > Len(t) THEN FALSE
    ELSE IF i > Len(s) THEN TRUE
    ELSE IF s[i] = t[i] THEN StrLessFrom(s, t, i + 1)
    ELSE Ord(s[i]) < Ord(t[i])

\* s < t on Python strings
StrLess(s, t) == StrLessFrom(s, t, 1)

\* s.startswith(p)
StartsWith(s, p) == Len(s) >= Len(p) /\ SubSeq(s, 1, Len(p)) = p

\* s[n:]
Drop(s, n) == SubSeq(s, n + 1, Len(s))

\* s.replace(a, b) for one-character a and b
Replace(s, a, b) == [i \in 1..Len(s) |-> IF s[i] = a THEN b ELSE s[i]]

RECURSIVE Split(_, _, _)
\* s.split(sep), with cur the piece being collected
Split(s, sep, cur) ==
    IF s = <<>> THEN <<cur>>
    ELSE IF Head(s) = sep THEN <<cur>> \o Split(Tail(s), sep, <<>>)
    ELSE Split(Tail(s), sep, Append(cur, Head(s)))

RECURSIVE Join(_, _)
\* sep.join(parts)
Join(parts, sep) ==
    IF parts = <<>> THEN <<>>
    ELSE IF Len(parts) = 1 THEN parts[1]
    ELSE parts[1] \o <<sep>> \o Join(Tail(parts), sep)

\* c * n: the empty string when n <= 0
Repeat(c, n) == [i \in 1..n |-> c]

\* f"{s:<{w}}" and f"{s:>{w}}": padded to w, never truncated
PadRight(s, w) == s \o Repeat(" ", w - Len(s))
PadLeft(s, w) == Repeat(" ", w - Len(s)) \o s

DigitChar(d) == <<"0", "1", "2", "3", "4", "5", "6", "7", "8", "9">>[d + 1]

RECURSIVE NatStr(_)
NatStr(n) == IF n < 10 THEN <<DigitChar(n)>>
             ELSE NatStr(n \div 10) \o <<DigitChar(n % 10)>>

\* str(n) for an int
IntStr(n) == IF n < 0 THEN <<"-">> \o NatStr(-n) ELSE NatStr(n)

-----------------------------------------------------------------------------
(* load_results: one result document to one record *)

\* str(Path(cr).parent): pathlib drops empty and "." components, the parent
\* of a path of at most one component is "." ("/" for an absolute path)
PathParent(cr) ==
    LET parts == SelectSeq(Split(cr, "/", <<>>),
                           LAMBDA p : p # <<>> /\ p # <<".">>)
        head == IF parts = <<>> THEN <<>> ELSE SubSeq(parts, 1, Len(parts) - 1)
    IN  IF cr # <<>> /\ cr[1] = "/" THEN <<"/">> \o Join(head, "/")
        ELSE IF head = <<>> THEN <<".">>
        ELSE Join(head, "/")

\* the path itself with dashes, its parent not taken
TransformedPath(cr) == Replace(cr, "/", "-")

\* str(Path(cr).parent).replace("/", "-")
TransformedParent(cr) == Replace(PathParent(cr), "/", "-")

RECURSIVE LastMatch(_, _, _)
\* the loop without its break: a later matching root replaces an earlier one
LastMatch(crate_roots, suffix, i) ==
    IF i > Len(crate_roots) THEN None
    ELSE LET later == LastMatch(crate_roots, suffix, i + 1)
         IN  IF ~IsNone(later) THEN later
             ELSE IF Replace(PathParent(crate_roots[i]), "/", "-") = suffix
             THEN Some(crate_roots[i])
             ELSE None

RECURSIVE FirstMatch(_, _, _)
\* the for loop over crate_roots with its break: the first root, from index
\* i on, whose transformed parent is the suffix; None when the loop ends
FirstMatch(crate_roots, suffix, i) ==
    IF i > Len(crate_roots) THEN None
    ELSE IF TransformedParent(crate_roots[i]) = suffix THEN Some(crate_roots[i])
    ELSE FirstMatch(crate_roots, suffix, i + 1)

\* a resolver that gives no root to a stem outside "<project-name>-<suffix>"
ResolveCrateRootSuffixedOnly(stem, proj_name, crate_roots) ==
    IF Len(crate_roots) > 1
           /\ stem # proj_name /\ StartsWith(stem, proj_name \o <<"-">>)
    THEN LET suffix == Drop(stem, Len(proj_name) + 1)
             found == FirstMatch(crate_roots, suffix, 1)
         IN  IF IsNone(found) THEN Some(suffix) ELSE found
    ELSE None

\* the crate root a result file stands for
ResolveCrateRoot(stem, proj_name, crate_roots) ==
    IF Len(crate_roots) > 1
    THEN IF stem # proj_name /\ StartsWith(stem, proj_name \o <<"-">>)
         THEN LET suffix == Drop(stem, Len(proj_name) + 1)
                  found == FirstMatch(crate_roots, suffix, 1)
              IN  IF IsNone(found) THEN Some(suffix) ELSE found
         ELSE Some(crate_roots[1])
    ELSE None

\* one entry of a module's function-breakdown
FunctionRecord(fn) ==
    [name |-> Get(fn, "function", <<>>),
     time_ms |-> GetOpt(fn, "time"),
     time_us |-> GetOpt(fn, "time-micros"),
     success |-> GetOpt(fn, "success")]

RECURSIVE FlattenModules(_)
\* the nested loops over smt-run-module-times and function-breakdown
FlattenModules(modules) ==
    IF modules = <<>> THEN <<>>
    ELSE LET bd == Get(Head(modules), "function-breakdown", <<>>)
         IN  [i \in 1..Len(bd) |-> FunctionRecord(bd[i])]
                 \o FlattenModules(Tail(modules))

\* the body of load_results' loop: the record stored under results[stem]
LoadRecord(stem, data) ==
    LET runner == Get(data, "runner", <<>>)
        run_config == Get(runner, "run_configuration", <<>>)
        vr == Get(data, "verification-results", <<>>)
        times == Get(data, "times-ms", <<>>)
        smt == Get(times, "smt", <<>>)
        functions == FlattenModules(Get(smt, "smt-run-module-times", <<>>))
        crate_roots == Get(run_config, "crate_roots", <<>>)
        proj_name == Get(run_config, "name", stem)
    IN  [name |-> proj_name,
         crate_root |-> ResolveCrateRoot(stem, proj_name, crate_roots),
         success |-> GetOpt(runner, "success"),
         verified |-> IF DOMAIN vr # {} THEN GetOpt(vr, "verified") ELSE None,
         errors |-> IF DOMAIN vr # {} THEN GetOpt(vr, "errors") ELSE None,
         total_ms |-> GetOpt(times, "total"),
         functions |-> functions]

-----------------------------------------------------------------------------
(* formatting *)

\* the literals of the reports, as character sequences; in Arrow the
\* character ">" stands for the one code point U+2192
S_Project == <<"P", "r", "o", "j", "e", "c", "t">>
S_CrateRoot == <<"C", "r", "a", "t", "e", " ", "R", "o", "o", "t">>
S_Status == <<"S", "t", "a", "t", "u", "s">>
S_Verified == <<"V", "e", "r", "i", "f", "i", "e", "d">>
S_Errors == <<"E", "r", "r", "o", "r", "s">>
S_TotalTime == <<"T", "o", "t", "a", "l", " ", "T", "i", "m", "e">>
S_Function == <<"F", "u", "n", "c", "t", "i", "o", "n">>
S_Old == <<"O", "l", "d">>
S_New == <<"N", "e", "w">>
S_NA == <<"N", "/", "A">>
S_Dash == <<"-">>
S_OK == <<"O", "K">>
S_FAILED == <<"F", "A", "I", "L", "E", "D">>
S_ERROR == <<"E", "R", "R", "O", "R">>
S_new == <<"(", "n", "e", "w", ")">>
S_removed == <<"(", "r", "e", "m", "o", "v", "e", "d", ")">>
S_gone == <<"(", "g", "o", "n", "e", ")">>
S_ms == <<" ", "m", "s">>
S_s == <<" ", "s">>
Arrow == <<" ", ">", " ">>

\* round(n * 10^j / d) for n >= 0 and d > 0, by long division.  A remainder of
\* exactly one half rounds to even; Python rounds the binary float there, so
\* the inputs of the model keep off such ties.
RECURSIVE ScaledDiv(_, _, _, _)
ScaledDiv(q, r, d, j) ==
    IF j = 0
    THEN IF 2 * r > d \/ (2 * r = d /\ q % 2 = 1) THEN q + 1 ELSE q
    ELSE ScaledDiv(q * 10 + (r * 10) \div d, (r * 10) % d, d, j - 1)

RECURSIVE Pow10(_)
Pow10(k) == IF k = 0 THEN 1 ELSE 10 * Pow10(k - 1)

\* f"{x:.{k}f}" of x = scaled / 10^k >= 0
FixedStr(scaled, k) ==
    LET frac == NatStr(scaled % Pow10(k))
    IN  NatStr(scaled \div Pow10(k)) \o <<".">>
            \o Repeat("0", k - Len(frac)) \o frac

Abs(n) == IF n < 0 THEN -n ELSE n

fmt_time(ms) ==
    IF IsNone(ms) THEN S_NA
    ELSE FixedStr(ScaledDiv(Val(ms) \div 1000, Val(ms) % 1000, 1000, 2), 2) \o S_s

fmt_status(success) ==
    IF IsNone(success) THEN S_ERROR
    ELSE IF Val(success) THEN S_OK ELSE S_FAILED

\* str(val) without the test for None
fmt_int_plain(val) ==
    IF IsNone(val) THEN <<"N", "o", "n", "e">> ELSE IntStr(Val(val))

fmt_int_or_dash(val) ==
    IF IsNone(val) THEN S_Dash ELSE IntStr(Val(val))

\* _signed
signed(n) == IF n >= 0 THEN <<"+">> \o IntStr(n) ELSE IntStr(n)

\* _signed_f of the number num / den * 10^shift, den > 0, to k decimals: the
\* sign is that of the number, also when it rounds to zero ("-0.00")
signed_f(num, den, shift, k) ==
    (IF num >= 0 THEN <<"+">> ELSE <<"-">>)
        \o FixedStr(ScaledDiv(Abs(num) \div den, Abs(num) % den, den, shift + k), k)

-----------------------------------------------------------------------------
(* the dict load_results returns: a sequence of [stem, rec], stems distinct *)

Keys(res) == {res[i].stem : i \in 1..Len(res)}

\* res[stem]
RecOf(res, stem) == res[CHOOSE i \in 1..Len(res) : res[i].stem = stem].rec

\* res.get(stem)
Lookup(res, stem) == IF stem \in Keys(res) THEN Some(RecOf(res, stem)) ELSE None

\* a sort key that leaves the stem out
KeyLessNameOnly(n1, s1, n2, s2) == StrLess(n1, n2)

\* (name, stem) < (name', stem') on tuples of str
KeyLess(n1, s1, n2, s2) == StrLess(n1, n2) \/ (n1 = n2 /\ StrLess(s1, s2))

\* the key of sorted_entries: (kv[1]["name"], kv[0])
EntryLess(a, b) == KeyLess(a.rec.name, a.stem, b.rec.name, b.stem)

RECURSIVE InsertEntry(_, _)
\* sorted() is stable: x goes behind every element that is not greater
InsertEntry(sorted, x) ==
    IF sorted = <<>> THEN <<x>>
    ELSE IF EntryLess(x, Head(sorted)) THEN <<x>> \o sorted
    ELSE <<Head(sorted)>> \o InsertEntry(Tail(sorted), x)

RECURSIVE SortEntries(_, _)
SortEntries(seq, acc) ==
    IF seq = <<>> THEN acc
    ELSE SortEntries(Tail(seq), InsertEntry(acc, Head(seq)))

sorted_entries(res) == SortEntries(res, <<>>)

\* r["crate_root"] or ""
CrateOrEmpty(rec) == IF IsNone(rec.crate_root) THEN <<>> ELSE Val(rec.crate_root)

-----------------------------------------------------------------------------
(* single-run output *)

S_TitleSummary == <<"=", "=", "=", " ", "P", "r", "o", "j", "e", "c", "t", " ", "S", "u", "m", "m", "a", "r", "y", " ", "=", "=", "=">>
S_TitleTop5 == <<"=", "=", "=", " ", "T", "o", "p", " ", "5", " ", "S", "l", "o", "w", "e", "s", "t", " ", "F", "u", "n", "c", "t", "i", "o", "n", "s", " ", "=", "=", "=">>
S_NoTiming == <<"(", "n", "o", " ", "t", "i", "m", "i", "n", "g", " ", "d", "a", "t", "a", " ", "a", "v", "a", "i", "l", "a", "b", "l", "e", ")">>
S_Dashes3 == <<"-", "-", "-">>

\* the fixed column widths of print_single_summary's format strings
StatusWidth == 8
VerifiedWidth == 10
ErrorsWidth == 6
TotalTimeWidth == 10
\* the padding added to a computed column width
ColPadding == 2
\* the [:5] of the top-5 reports and the width of their time column
TopN == 5
FnTimeWidth == 6

Sp(n) == Repeat(" ", n)

\* a printed line; the fields besides text record what the line was made of
Line(kind, text) == [kind |-> kind, text |-> text]

\* one line of the single-run table from its six cells
SingleLine(c, proj_col, cr_col, show_crate) ==
    PadRight(c[1], proj_col) \o Sp(1)
        \o (IF show_crate THEN PadRight(c[2], cr_col) \o Sp(1) ELSE <<>>)
        \o PadRight(c[3], StatusWidth) \o Sp(2)
        \o PadLeft(c[4], VerifiedWidth) \o Sp(3)
        \o PadLeft(c[5], ErrorsWidth) \o Sp(3)
        \o PadLeft(c[6], TotalTimeWidth)

SingleHeaderCells ==
    <<S_Project, S_CrateRoot, S_Status, S_Verified, S_Errors, S_TotalTime>>

SingleCells(r) ==
    <<r.name, CrateOrEmpty(r), fmt_status(r.success),
      fmt_int_or_dash(r.verified), fmt_int_or_dash(r.errors),
      fmt_time(r.total_ms)>>

print_single_summary(res) ==
    LET entries == sorted_entries(res)
        n == Len(entries)
        show_crate == \E i \in 1..n : ~IsNone(entries[i].rec.crate_root)
        proj_col == Max(Len(S_Project),
                        MaxOf([i \in 1..n |-> Len(entries[i].rec.name)], 1))
                    + ColPadding
        cr_col == IF show_crate
                  THEN Max(Len(S_CrateRoot),
                           MaxOf([i \in 1..n |->
                                     Len(CrateOrEmpty(entries[i].rec))], 1))
                       + ColPadding
                  ELSE 0
        header == SingleLine(SingleHeaderCells, proj_col, cr_col, show_crate)
    IN  <<Line("title", S_TitleSummary), Line("blank", <<>>),
          [kind |-> "header", text |-> header, cells |-> SingleHeaderCells,
           widths |-> <<proj_col, cr_col, StatusWidth, VerifiedWidth,
                        ErrorsWidth, TotalTimeWidth>>,
           show_crate |-> show_crate],
          Line("sep", Repeat("-", Len(header)))>>
        \o [i \in 1..n |->
               [kind |-> "row", stem |-> entries[i].stem,
                cells |-> SingleCells(entries[i].rec),
                text |-> SingleLine(SingleCells(entries[i].rec),
                                    proj_col, cr_col, show_crate)]]
        \o <<Line("blank", <<>>)>>

\* f["time_ms"] or 0
TimeKey(fn) == IF IsNone(fn.time_ms) THEN 0 ELSE Val(fn.time_ms)

RECURSIVE InsertFn(_, _)
\* sorted(..., reverse=True) is stable too: x goes behind every element
\* whose key is not smaller
InsertFn(sorted, x) ==
    IF sorted = <<>> THEN <<x>>
    ELSE IF TimeKey(x) > TimeKey(Head(sorted)) THEN <<x>> \o sorted
    ELSE <<Head(sorted)>> \o InsertFn(Tail(sorted), x)

RECURSIVE SortFns(_, _)
SortFns(seq, acc) ==
    IF seq = <<>> THEN acc ELSE SortFns(Tail(seq), InsertFn(acc, Head(seq)))

\* sorted(fns, key=lambda f: f["time_ms"] or 0, reverse=True)[:5]
Top5(fns) ==
    LET ranked == SortFns(fns, <<>>)
    IN  SubSeq(ranked, 1, IF Len(ranked) < TopN THEN Len(ranked) ELSE TopN)

\* tstr: f"{t:>6} ms", or "    N/A" for a function without a time
FnTimeStr(t) ==
    IF IsNone(t) THEN Sp(4) \o S_NA
    ELSE PadLeft(IntStr(Val(t)), FnTimeWidth) \o S_ms

\* the lines of one project in print_top5_single
Top5SingleOf(e) ==
    LET top5 == Top5(e.rec.functions)
    IN  <<[kind |-> "project", stem |-> e.stem, name |-> e.rec.name,
           text |-> S_Dashes3 \o Sp(1) \o e.rec.name \o Sp(1) \o S_Dashes3]>>
        \o (IF e.rec.functions = <<>>
            THEN <<Line("notiming", Sp(2) \o S_NoTiming)>>
            ELSE [i \in 1..Len(top5) |->
                     [kind |-> "fn", stem |-> e.stem, name |-> top5[i].name,
                      cell |-> FnTimeStr(top5[i].time_ms),
                      text |-> Sp(2) \o IntStr(i) \o <<".">> \o Sp(2)
                          \o FnTimeStr(top5[i].time_ms)
                          \o Sp(3) \o top5[i].name]])
        \o <<Line("blank", <<>>)>>

RECURSIVE ConcatAll(_)
ConcatAll(seqs) ==
    IF seqs = <<>> THEN <<>> ELSE Head(seqs) \o ConcatAll(Tail(seqs))

print_top5_single(res) ==
    LET entries == sorted_entries(res)
    IN  <<Line("title", S_TitleTop5), Line("blank", <<>>)>>
        \o ConcatAll([i \in 1..Len(entries) |-> Top5SingleOf(entries[i])])

-----------------------------------------------------------------------------
(* two-run comparison output *)

S_TitleComparison == <<"=", "=", "=", " ", "P", "r", "o", "j", "e", "c", "t", " ", "S", "u", "m", "m", "a", "r", "y", " ", "(", "o", "l", "d", " ", ">", " ", "n", "e", "w", ")", " ", "=", "=", "=">>
S_Change == <<"C", "h", "a", "n", "g", "e">>

\* _cmp_int
cmp_int(old, new) ==
    fmt_int_or_dash(old) \o Arrow \o fmt_int_or_dash(new)
        \o (IF ~IsNone(old) /\ ~IsNone(new)
            THEN <<" ", "(">> \o signed(Val(new) - Val(old)) \o <<")">>
            ELSE <<>>)

\* _cmp_time
cmp_time(old_ms, new_ms) ==
    IF ~IsNone(old_ms) /\ ~IsNone(new_ms)
    THEN LET o == Val(old_ms)
             n == Val(new_ms)
         IN  FixedStr(ScaledDiv(o \div 1000, o % 1000, 1000, 2), 2) \o Arrow
                 \o FixedStr(ScaledDiv(n \div 1000, n % 1000, 1000, 2), 2)
                 \o S_s \o <<" ", "(">> \o signed_f(n - o, 1000, 0, 2)
                 \o S_s \o <<",", " ">>
                 \o (IF o # 0 THEN signed_f(n - o, o, 2, 1)
                     ELSE signed_f(0, 1, 0, 1))
                 \o <<"%", ")">>
    ELSE fmt_time(old_ms) \o Arrow \o fmt_time(new_ms)

\* (old_results.get(s) or new_results.get(s))
OldOrNew(old_results, new_results, stem) ==
    IF stem \in Keys(old_results) THEN RecOf(old_results, stem)
    ELSE RecOf(new_results, stem)

\* the key of all_stems: ((old_results.get(s) or new_results.get(s))["name"], s)
StemLess(old_results, new_results, s, t) ==
    KeyLess(OldOrNew(old_results, new_results, s).name, s,
            OldOrNew(old_results, new_results, t).name, t)

RECURSIVE InsertStem(_, _, _, _)
InsertStem(old_results, new_results, sorted, x) ==
    IF sorted = <<>> THEN <<x>>
    ELSE IF StemLess(old_results, new_results, x, Head(sorted))
         THEN <<x>> \o sorted
    ELSE <<Head(sorted)>>
             \o InsertStem(old_results, new_results, Tail(sorted), x)

RECURSIVE SortStems(_, _, _, _)
SortStems(old_results, new_results, seq, acc) ==
    IF seq = <<>> THEN acc
    ELSE SortStems(old_results, new_results, Tail(seq),
                   InsertStem(old_results, new_results, acc, Head(seq)))

\* the keys of both runs put one after the other instead of united: a stem
\* of both runs comes twice
all_stems_concat(old_results, new_results, order) ==
    SortStems(old_results, new_results,
              order \o SelectSeq(order,
                                 LAMBDA st : st \in Keys(old_results)
                                                 /\ st \in Keys(new_results)),
              <<>>)

\* sorted(set(old_results.keys()) | set(new_results.keys()), key=...), with
\* order the sequence in which the set hands out its elements
all_stems(old_results, new_results, order) ==
    SortStems(old_results, new_results, order, <<>>)

\* one element of rows: (name, crate_root, status_str, ver_str, err_str,
\* time_str), crate_root already as the "crate_root or ''" that is printed
ComparisonCells(old_results, new_results, stem) ==
    LET old == Lookup(old_results, stem)
        new == Lookup(new_results, stem)
        first == OldOrNew(old_results, new_results, stem)
    IN  IF IsNone(old)
        THEN <<first.name, CrateOrEmpty(first), S_new,
               fmt_int_or_dash(Val(new).verified),
               fmt_int_or_dash(Val(new).errors), fmt_time(Val(new).total_ms)>>
        ELSE IF IsNone(new)
        THEN <<first.name, CrateOrEmpty(first), S_removed,
               fmt_int_or_dash(Val(old).verified),
               fmt_int_or_dash(Val(old).errors), fmt_time(Val(old).total_ms)>>
        ELSE LET old_st == fmt_status(Val(old).success)
                 new_st == fmt_status(Val(new).success)
             IN  <<first.name, CrateOrEmpty(first),
                   IF old_st = new_st THEN old_st
                   ELSE old_st \o Arrow \o new_st,
                   cmp_int(Val(old).verified, Val(new).verified),
                   cmp_int(Val(old).errors, Val(new).errors),
                   cmp_time(Val(old).total_ms, Val(new).total_ms)>>

\* one line of the comparison table from its six cells and column widths
ComparisonLine(c, w, show_crate) ==
    PadRight(c[1], w[1]) \o Sp(1)
        \o (IF show_crate THEN PadRight(c[2], w[2]) \o Sp(1) ELSE <<>>)
        \o PadRight(c[3], w[3]) \o Sp(1)
        \o PadLeft(c[4], w[4]) \o Sp(2)
        \o PadLeft(c[5], w[5]) \o Sp(2)
        \o PadLeft(c[6], w[6])

\* max(len(label), max(len(r[k]) for r in rows))
ColWidth(label, rows, k) ==
    Max(Len(label), MaxOf([i \in 1..Len(rows) |-> Len(rows[i][k])], 1))

print_comparison_summary(old_results, new_results, order) ==
    LET stems == all_stems(old_results, new_results, order)
        n == Len(stems)
        rows == [i \in 1..n |->
                    ComparisonCells(old_results, new_results, stems[i])]
        show_crate ==
            \E i \in 1..n :
                ~IsNone(OldOrNew(old_results, new_results, stems[i]).crate_root)
        w == <<ColWidth(S_Project, rows, 1) + ColPadding,
               IF show_crate THEN ColWidth(S_CrateRoot, rows, 2) + ColPadding
               ELSE 0,
               ColWidth(S_Status, rows, 3) + ColPadding,
               ColWidth(S_Verified, rows, 4),
               ColWidth(S_Errors, rows, 5),
               ColWidth(S_TotalTime, rows, 6)>>
        header == ComparisonLine(SingleHeaderCells, w, show_crate)
    IN  <<Line("title", S_TitleComparison), Line("blank", <<>>),
          [kind |-> "header", text |-> header, cells |-> SingleHeaderCells,
           widths |-> w, show_crate |-> show_crate],
          Line("sep", Repeat("-", Len(header)))>>
        \o [i \in 1..n |->
               [kind |-> "row", stem |-> stems[i], cells |-> rows[i],
                text |-> ComparisonLine(rows[i], w, show_crate)]]
        \o <<Line("blank", <<>>)>>

\* a lookup among the five slowest functions only
FnGetTop5(fns, name) ==
    LET top5 == Top5(fns)
        at == {i \in 1..Len(top5) : top5[i].name = name}
    IN  IF at = {} THEN None
        ELSE Some(top5[CHOOSE i \in at : \A j \in at : j <= i])

\* {fn["name"]: fn for fn in fns}.get(name): the last function of that name
FnGet(fns, name) ==
    LET at == {i \in 1..Len(fns) : fns[i].name = name}
    IN  IF at = {} THEN None
        ELSE Some(fns[CHOOSE i \in at : \A j \in at : j <= i])

RECURSIVE Dedup(_, _)
\* the loop over old_top5 + new_top5 that keeps each name's first occurrence
Dedup(fns, seen) ==
    IF fns = <<>> THEN <<>>
    ELSE IF Head(fns).name \in seen THEN Dedup(Tail(fns), seen)
    ELSE <<Head(fns).name>> \o Dedup(Tail(fns), seen \cup {Head(fns).name})

\* old["functions"] if old else []
FunctionsOf(rec) == IF IsNone(rec) THEN <<>> ELSE Val(rec).functions

union_names(old, new) ==
    Dedup(Top5(FunctionsOf(old)) \o Top5(FunctionsOf(new)), {})

\* old_fn["time_ms"] if old_fn else None
FnTime(fn) == IF IsNone(fn) THEN None ELSE Val(fn).time_ms

\* old_str and new_str: absent is "(new)" on the old side, "(gone)" on the new
FnCell(fn, absent) ==
    IF ~IsNone(fn) /\ ~IsNone(FnTime(fn)) THEN IntStr(Val(FnTime(fn))) \o S_ms
    ELSE IF IsNone(fn) THEN absent
    ELSE S_NA

\* the length old_col and new_col allow for a cell
FnCellWidth(fn) ==
    IF ~IsNone(fn) /\ ~IsNone(FnTime(fn))
    THEN Len(IntStr(Val(FnTime(fn))) \o S_ms)
    ELSE Len(S_gone)

change_str(old_t, new_t) ==
    IF ~IsNone(old_t) /\ ~IsNone(new_t)
    THEN LET delta == Val(new_t) - Val(old_t)
         IN  signed(delta) \o S_ms \o <<" ", "(">>
                 \o (IF Val(old_t) # 0 THEN signed_f(delta, Val(old_t), 2, 1)
                     ELSE signed_f(0, 1, 0, 1))
                 \o <<"%", ")">>
    ELSE <<>>

\* the lines of one identity in print_top5_comparison
Top5ComparisonOf(old_results, new_results, stem) ==
    LET old == Lookup(old_results, stem)
        new == Lookup(new_results, stem)
        name == OldOrNew(old_results, new_results, stem).name
        names == union_names(old, new)
        n == Len(names)
        old_fn(i) == FnGet(FunctionsOf(old), names[i])
        new_fn(i) == FnGet(FunctionsOf(new), names[i])
        fn_col == Max(Len(S_Function), MaxOf([i \in 1..n |-> Len(names[i])], 1))
                      + ColPadding
        old_col == Max(Len(S_Old),
                       MaxOf([i \in 1..n |-> FnCellWidth(old_fn(i))], 1))
        new_col == Max(Len(S_New),
                       MaxOf([i \in 1..n |-> FnCellWidth(new_fn(i))], 1))
    IN  <<[kind |-> "project", stem |-> stem, name |-> name,
           text |-> S_Dashes3 \o Sp(1) \o name \o Sp(1) \o S_Dashes3]>>
        \o (IF names = <<>>
            THEN <<Line("notiming", Sp(2) \o S_NoTiming)>>
            ELSE <<[kind |-> "fnheader",
                    text |-> Sp(2) \o PadRight(S_Function, fn_col) \o Sp(1)
                        \o PadLeft(S_Old, old_col) \o Sp(1)
                        \o PadLeft(S_New, new_col) \o Sp(3) \o S_Change,
                    widths |-> <<fn_col, old_col, new_col>>],
                  Line("sep", Sp(2)
                        \o Repeat("-", fn_col + old_col + new_col + 20))>>
                 \o [i \in 1..n |->
                        [kind |-> "fnrow", stem |-> stem, name |-> names[i],
                         cells |-> <<names[i], FnCell(old_fn(i), S_new),
                                     FnCell(new_fn(i), S_gone),
                                     change_str(FnTime(old_fn(i)),
                                                FnTime(new_fn(i)))>>,
                         text |-> Sp(2) \o PadRight(names[i], fn_col) \o Sp(1)
                             \o PadLeft(FnCell(old_fn(i), S_new), old_col)
                             \o Sp(1)
                             \o PadLeft(FnCell(new_fn(i), S_gone), new_col)
                             \o Sp(3)
                             \o change_str(FnTime(old_fn(i)),
                                           FnTime(new_fn(i)))]])
        \o <<Line("blank", <<>>)>>

print_top5_comparison(old_results, new_results, order) ==
    LET stems == all_stems(old_results, new_results, order)
    IN  <<Line("title", S_TitleTop5), Line("blank", <<>>)>>
        \o ConcatAll([i \in 1..Len(stems) |->
                         Top5ComparisonOf(old_results, new_results, stems[i])])

-----------------------------------------------------------------------------
(* main: the directories are loaded file by file, then the report is printed *)

S_json == <<".", "j", "s", "o", "n">>
S_NoFiles == <<"N", "o", " ", "J", "S", "O", "N", " ", "f", "i", "l", "e", "s", " ", "f", "o", "u", "n", "d", " ", "i", "n">>
S_NoFilesEither == <<"N", "o", " ", "J", "S", "O", "N", " ", "f", "i", "l", "e", "s", " ", "f", "o", "u", "n", "d", " ", "i", "n", " ", "e", "i", "t", "h", "e", "r", " ", "d", "i", "r", "e", "c", "t", "o", "r", "y">>

\* a file that json.load accepts, holding the JSON object data, and one that
\* it rejects
GoodFile(data) == [ok |-> TRUE, data |-> data]
BadFile == [ok |-> FALSE, data |-> <<>>]

\* a parser that swallows the error and hands back an empty document
json_load_lenient(file) == [raised |-> FALSE, data |-> file.data]

\* json.load(f): the document, or the exception it raises
json_load(file) ==
    IF file.ok THEN [raised |-> FALSE, data |-> file.data]
    ELSE [raised |-> TRUE, data |-> <<>>]

RECURSIVE SortedNames(_)
\* sorted(glob.glob(f'{directory}/*.json')): the stems in the order of their
\* file names
SortedNames(stems) ==
    IF stems = {} THEN <<>>
    ELSE LET m == CHOOSE x \in stems :
                     \A y \in stems \ {x} : StrLess(x \o S_json, y \o S_json)
         IN  <<m>> \o SortedNames(stems \ {m})

Glob(dir) == SortedNames(DOMAIN dir)

\* every order in which a set can hand out its elements
Orders(S) ==
    {o \in [1..Cardinality(S) -> S] : \A i, j \in DOMAIN o : o[i] = o[j] => i = j}

\* the state in which main() calls load_results(args.dirs[0])
Start(ds) ==
    /\ dirs = ds
    /\ pc = "load"
    /\ di = 1
    /\ todo = Glob(ds[1])
    /\ results = <<<<>>>>
    /\ out = <<>>
    /\ err = ""

\* one turn of load_results' loop on a file that parses
LoadFile ==
    /\ pc = "load"
    /\ todo # <<>>
    /\ LET doc == json_load(dirs[di][Head(todo)])
       IN  /\ ~doc.raised
           /\ results' = [results EXCEPT ![di] =
                             Append(@, [stem |-> Head(todo),
                                        rec |-> LoadRecord(Head(todo), doc.data)])]
    /\ todo' = Tail(todo)
    /\ UNCHANGED <<dirs, pc, di, out, err>>

\* json.load raises: nothing catches it, the program ends
ParseError ==
    /\ pc = "load"
    /\ todo # <<>>
    /\ json_load(dirs[di][Head(todo)]).raised
    /\ pc' = "aborted"
    /\ err' = "JSONDecodeError"
    /\ UNCHANGED <<dirs, di, todo, results, out>>

\* load_results(args.dirs[0]) returns in comparison mode: load args.dirs[1]
NextDirectory ==
    /\ pc = "load"
    /\ todo = <<>>
    /\ di < Len(dirs)
    /\ di' = di + 1
    /\ todo' = Glob(dirs[di + 1])
    /\ results' = Append(results, <<>>)
    /\ UNCHANGED <<dirs, pc, out, err>>

\* the last load_results returns
AllLoaded ==
    /\ pc = "load"
    /\ todo = <<>>
    /\ di = Len(dirs)
    /\ pc' = "report"
    /\ UNCHANGED <<dirs, di, todo, results, out, err>>

\* if not results: print(f"No JSON files found in {args.dirs[0]}")
NoFilesSingle ==
    /\ pc = "report"
    /\ Len(dirs) = 1
    /\ results[1] = <<>>
    /\ out' = <<[kind |-> "nofiles", text |-> S_NoFiles, dir |-> 1]>>
    /\ pc' = "done"
    /\ UNCHANGED <<dirs, di, todo, results, err>>

ReportSingle ==
    /\ pc = "report"
    /\ Len(dirs) = 1
    /\ results[1] # <<>>
    /\ out' = print_single_summary(results[1]) \o print_top5_single(results[1])
    /\ pc' = "done"
    /\ UNCHANGED <<dirs, di, todo, results, err>>

\* if not old_results and not new_results
NoFilesEither ==
    /\ pc = "report"
    /\ Len(dirs) = 2
    /\ results[1] = <<>> /\ results[2] = <<>>
    /\ out' = <<[kind |-> "nofiles", text |-> S_NoFilesEither, dir |-> 0]>>
    /\ pc' = "done"
    /\ UNCHANGED <<dirs, di, todo, results, err>>

\* the two comparison reports; each sorts a set of stems, and a set hands out
\* its elements in an order of its own
ReportComparison ==
    /\ pc = "report"
    /\ Len(dirs) = 2
    /\ ~(results[1] = <<>> /\ results[2] = <<>>)
    /\ \E o1, o2 \in Orders(Keys(results[1]) \cup Keys(results[2])) :
           out' = print_comparison_summary(results[1], results[2], o1)
                      \o print_top5_comparison(results[1], results[2], o2)
    /\ pc' = "done"
    /\ UNCHANGED <<dirs, di, todo, results, err>>

Next ==
    \/ LoadFile
    \/ ParseError
    \/ NextDirectory
    \/ AllLoaded
    \/ NoFilesSingle
    \/ ReportSingle
    \/ NoFilesEither
    \/ ReportComparison

-----------------------------------------------------------------------------
(* the inputs *)

\* the most files a directory of the model holds
MaxFiles == 2

\* the directories over the given stems and files, of at most MaxFiles files
Directories(stems, files) ==
    UNION {[S -> files] : S \in {T \in SUBSET stems : Cardinality(T) <= MaxFiles}}

\* one directory, or two with one of them drawn from the second set
Invocations(D, E) ==
    {<<d>> : d \in D} \cup (D \X E) \cup (E \X D)

EmptyDir == <<>>

\* put key k of a JSON object, when present
Field(present, k, v) == IF present THEN k :> v ELSE <<>>

st_a == <<"a">>
st_b == <<"b">>

\* the empty document, listed under its stem with status ERROR, and a document
\* of a successful run that names its project "b"
NamedDocs ==
    {<<>>,
     "runner" :> (("run_configuration" :> ("name" :> st_b)) @@ ("success" :> TRUE))}

NamedDirs == Directories({st_a, <<"a", "-", "b">>, st_b},
                         {GoodFile(d) : d \in NamedDocs} \cup {BadFile})

Init == \E ds \in Invocations(NamedDirs, NamedDirs) : Start(ds)

Spec == Init /\ [][Next]_vars

-----------------------------------------------------------------------------
(* inputs for the crate-root resolver *)

st_a_tools_x == <<"a", "-", "t", "o", "o", "l", "s", "-", "x">>
st_a_a_tools == <<"a", "-", "a", "-", "t", "o", "o", "l", "s">>
st_p2 == <<"p", "2">>
st_p2_src == <<"p", "2", "-", "s", "r", "c">>
cr_a_src == <<"a", "/", "s", "r", "c">>
cr_a_tools_x == <<"a", "/", "t", "o", "o", "l", "s", "/", "x">>
cr_p2_src == <<"p", "2", "/", "s", "r", "c">>
cr_p2_lib == <<"p", "2", "/", "l", "i", "b">>

RootStems ==
    {st_a, st_a_tools_x, st_a_a_tools, <<"a", "-", "a", "-", "b">>, st_p2,
     st_p2_src, <<"p", "2", "-", "p", "2">>,
     <<"a", "b">>, <<"a", "-">>}

\* the crate_roots lists: none, one root, the two roots of project "a", two
\* roots under one parent, and roots whose different parents "a/b" and "a-b"
\* are the same once their separators are dashes
RootLists ==
    {<<>>, <<cr_a_src>>, <<cr_a_src, cr_a_tools_x>>, <<cr_p2_src, cr_p2_lib>>,
     <<cr_a_src, <<"a", "/", "b", "/", "x">>, <<"a", "-", "b", "/", "y">>>>}

\* documents with a run_configuration of any name and any crate_roots, each of
\* the two possibly absent
RootDocs ==
    {"runner" :> ("run_configuration" :> (Field(named, "name", nm)
                                              @@ Field(listed, "crate_roots", roots))) :
        named \in BOOLEAN, nm \in {st_a, st_p2},
        listed \in BOOLEAN, roots \in RootLists}

\* a directory of one file
OneFile(stems, docs) == {st :> GoodFile(d) : st \in stems, d \in docs}

\* the directories every set of invocations is combined with: an empty one,
\* one whose file does not parse, one holding the empty document
OtherDirs == {EmptyDir, st_a :> BadFile, st_a :> GoodFile(<<>>)}

\* the file "p2-src" of a project "p2" with the roots ["p2/src", "p2/lib"]
P2SrcDir ==
    st_p2_src :> GoodFile("runner" :> ("run_configuration" :>
                              (("name" :> st_p2)
                                   @@ ("crate_roots" :> <<cr_p2_src, cr_p2_lib>>))))

InitRoots ==
    \E ds \in Invocations(OneFile(RootStems, RootDocs) \cup OtherDirs,
                          OtherDirs \cup {P2SrcDir}) :
        Start(ds)

SpecRoots == InitRoots /\ [][Next]_vars

-----------------------------------------------------------------------------
(* inputs of small and of large magnitude *)

\* documents whose counts and total time are small or have more digits than
\* the single-run table allows for; TLC's integers end at 2^31 - 1
MagnitudeDocs ==
    {("verification-results" :> (("verified" :> v) @@ ("errors" :> e)))
         @@ ("times-ms" :> ("total" :> t)) :
        v \in {7, 1234567890}, e \in {0, 1000000}, t \in {1500, 100000000}}

InitMagnitude ==
    \E ds \in Invocations(OneFile({st_a}, MagnitudeDocs) \cup OtherDirs,
                          OneFile({st_a, st_b}, MagnitudeDocs) \cup OtherDirs) :
        Start(ds)

SpecMagnitude == InitMagnitude /\ [][Next]_vars

-----------------------------------------------------------------------------
(* inputs with every choice of absent fields *)

fn_A == <<"A">>

\* the JSON objects in which key k is absent or holds a value of V
OptField(k, V) == {<<>>} \cup {k :> v : v \in V}

\* the JSON objects made of one object of A and one of B
Objects(A, B) == {a @@ b : a \in A, b \in B}

\* the documents in which each optional field is absent or present; the
\* module list is absent, empty, of one module (without a breakdown, with an
\* empty one, with one function) or of two modules that differ
FieldDocs ==
    LET RunConfigDocs ==
            Objects(OptField("name", {st_b}),
                    OptField("crate_roots", {<<cr_a_src, cr_a_tools_x>>}))
        RunnerDocs ==
            Objects(OptField("run_configuration", RunConfigDocs),
                    OptField("success", BOOLEAN))
        ResultDocs == Objects(OptField("verified", {7}), OptField("errors", {0}))
        FunctionDocs ==
            Objects(OptField("function", {fn_A}), OptField("time", {100}))
        ModuleDocs ==
            OptField("function-breakdown", {<<>>} \cup {<<f>> : f \in FunctionDocs})
        ModuleLists ==
            {<<>>} \cup {<<md>> : md \in ModuleDocs}
                \cup {<<m1, m2>> :
                         m1, m2 \in {<<>>, "function-breakdown" :> <<>>,
                                     "function-breakdown" :> <<"function" :> fn_A>>}}
        TimesDocs ==
            Objects(OptField("total", {1500}),
                    OptField("smt", OptField("smt-run-module-times", ModuleLists)))
    IN  Objects(OptField("runner", RunnerDocs),
                Objects(OptField("verification-results", ResultDocs),
                        OptField("times-ms", TimesDocs)))

\* a document with every field
FullDoc ==
    ("runner" :> (("run_configuration" :>
                      (("name" :> st_b)
                           @@ ("crate_roots" :> <<cr_a_src, cr_a_tools_x>>)))
                      @@ ("success" :> FALSE)))
        @@ ("verification-results" :> (("verified" :> 9) @@ ("errors" :> 2)))
        @@ ("times-ms" :>
                (("total" :> 1702)
                     @@ ("smt" :> ("smt-run-module-times" :>
                            <<"function-breakdown" :>
                                  <<("function" :> fn_A) @@ ("time" :> 95)>>>>))))

InitFields ==
    \E ds \in Invocations(OneFile({st_a}, FieldDocs) \cup OtherDirs,
                          OtherDirs \cup {st_a :> GoodFile(FullDoc)}) :
        Start(ds)

SpecFields == InitFields /\ [][Next]_vars

-----------------------------------------------------------------------------
(* inputs: documents that differ in the functions of their breakdown *)

\* an entry of a function-breakdown with a time, and one without
Timed(name, t) == ("function" :> name) @@ ("time" :> t)
NoTime(name) == "function" :> name

\* six functions in the order the breakdown lists them, which is not the
\* order of their times; D and B tie, E takes no time
Listed ==
    <<Timed(<<"F">>, 80), Timed(<<"E">>, 0), Timed(<<"D">>, 90),
      Timed(<<"C">>, 95), Timed(<<"B">>, 90), Timed(fn_A, 100)>>

\* the breakdowns that keep, strip of its time, or drop each function of Listed
Breakdowns ==
    {LET kept == SelectSeq([i \in 1..Len(Listed) |-> i],
                           LAMBDA i : how[i] # "dropped")
     IN  [k \in 1..Len(kept) |->
             IF how[kept[k]] = "timed" THEN Listed[kept[k]]
             ELSE NoTime(Listed[kept[k]]["function"])] :
        how \in [1..Len(Listed) -> {"timed", "untimed", "dropped"}]}

\* the breakdowns of the other side: none, the functions B and C, a function
\* that takes no time on the first side, a name listed twice with and without
\* a time, and seven functions
OtherBreakdowns ==
    {<<>>,
     <<Timed(<<"B">>, 95), Timed(<<"C">>, 80)>>,
     <<Timed(<<"E">>, 7), Timed(<<"G">>, 3)>>,
     <<NoTime(fn_A), Timed(fn_A, 50), Timed(<<"F">>, 1)>>,
     <<Timed(fn_A, 50), NoTime(fn_A)>>,
     <<Timed(fn_A, 1), Timed(<<"G">>, 2), Timed(<<"H">>, 3), Timed(<<"I">>, 4),
       Timed(<<"J">>, 5), Timed(<<"K">>, 6), NoTime(<<"B">>)>>}

\* the document whose only module has the breakdown fns
BreakdownDoc(fns) ==
    "times-ms" :> ("smt" :> ("smt-run-module-times" :>
                      <<"function-breakdown" :> fns>>))

InitFunctions ==
    \E ds \in Invocations(
                  OneFile({st_a}, {BreakdownDoc(f) : f \in Breakdowns})
                      \cup OtherDirs,
                  OneFile({st_a}, {BreakdownDoc(f) : f \in OtherBreakdowns})
                      \cup OtherDirs) :
        Start(ds)

SpecFunctions == InitFunctions /\ [][Next]_vars

-----------------------------------------------------------------------------
(* analyze.py: main builds one Run per directory, then plots the runs *)

RECURSIVE Item(_, _)
\* json[k1][k2]...: the value, or the KeyError of the first absent key
Item(d, path) ==
    IF path = <<>> THEN [raised |-> FALSE, value |-> d]
    ELSE IF Head(path) \notin DOMAIN d THEN [raised |-> TRUE, value |-> <<>>]
    ELSE Item(d[Head(path)], Tail(path))

\* FunctionSmtTime.__init__
FunctionSmtTime(json) ==
    [raised |-> Item(json, <<"function">>).raised \/ Item(json, <<"time">>).raised,
     name |-> Item(json, <<"function">>).value,
     time_ms |-> Item(json, <<"time">>).value]

RECURSIVE SmtTimes(_)
\* the loops of Project.__init__ over the modules and their breakdowns
SmtTimes(modules) ==
    IF modules = <<>> THEN [raised |-> FALSE, value |-> <<>>]
    ELSE LET bd == Item(Head(modules), <<"function-breakdown">>)
             fns == [i \in 1..Len(bd.value) |-> FunctionSmtTime(bd.value[i])]
             rest == SmtTimes(Tail(modules))
         IN  IF bd.raised \/ \E i \in 1..Len(fns) : fns[i].raised
             THEN [raised |-> TRUE, value |-> <<>>]
             ELSE [raised |-> rest.raised, value |-> fns \o rest.value]

\* Project.__init__: the project, or the KeyError a subscript raises
Project(json) ==
    LET name == Item(json, <<"runner", "run_configuration", "name">>)
        refspec == Item(json, <<"runner", "run_configuration", "refspec">>)
        times_ms == Item(json, <<"times-ms">>)
        total_solved == Item(json, <<"verification-results", "verified">>)
        errors == Item(json, <<"verification-results", "errors">>)
        run_label == Item(json, <<"runner", "label">>)
        date == IF ~Item(json, <<"runner", "date">>).raised
                THEN Item(json, <<"runner", "date">>)
                ELSE Item(json, <<"runner", "data">>)
        modules == Item(json, <<"times-ms", "smt", "smt-run-module-times">>)
        fn_smt_times == IF modules.raised THEN modules ELSE SmtTimes(modules.value)
    IN  [raised |-> \/ name.raised \/ refspec.raised \/ times_ms.raised
                    \/ total_solved.raised \/ errors.raised \/ run_label.raised
                    \/ date.raised \/ fn_smt_times.raised,
         name |-> name.value,
         total_solved |-> total_solved.value,
         errors |-> errors.value,
         run_label |-> run_label.value,
         date |-> date.value,
         fn_smt_times |-> fn_smt_times.value]

RECURSIVE Sum(_)
Sum(seq) == IF seq = <<>> THEN 0 ELSE Head(seq) + Sum(Tail(seq))

\* Run.__init__ once the projects are read
Run(projects) ==
    [label |-> projects[1].run_label,
     date |-> projects[1].date,
     names |-> {projects[i].name : i \in 1..Len(projects)},
     total_solved |-> Sum([i \in 1..Len(projects) |-> projects[i].total_solved]),
     errors |-> Sum([i \in 1..Len(projects) |-> projects[i].errors])]

\* the state in which main() builds Run(args.dirs[0]); glob.glob hands out the
\* files in an order of its own
StartAnalyze(ds) ==
    /\ dirs = ds
    /\ pc = "read"
    /\ di = 1
    /\ todo \in Orders(DOMAIN ds[1])
    /\ results = <<<<>>>>
    /\ out = <<>>
    /\ err = ""

\* one turn of read_json_files_into_projects' loop
ReadProject ==
    /\ pc = "read"
    /\ todo # <<>>
    /\ LET doc == json_load(dirs[di][Head(todo)])
       IN  /\ ~doc.raised
           /\ ~Project(doc.data).raised
           /\ results' = [results EXCEPT ![di] = Append(@, Project(doc.data))]
    /\ todo' = Tail(todo)
    /\ UNCHANGED <<dirs, pc, di, out, err>>

\* json.load raises
ReadParseError ==
    /\ pc = "read"
    /\ todo # <<>>
    /\ json_load(dirs[di][Head(todo)]).raised
    /\ pc' = "aborted"
    /\ err' = "JSONDecodeError"
    /\ UNCHANGED <<dirs, di, todo, results, out>>

\* a subscript of Project.__init__ raises
ProjectKeyError ==
    /\ pc = "read"
    /\ todo # <<>>
    /\ LET doc == json_load(dirs[di][Head(todo)])
       IN  ~doc.raised /\ Project(doc.data).raised
    /\ pc' = "aborted"
    /\ err' = "KeyError"
    /\ UNCHANGED <<dirs, di, todo, results, out>>

\* self.projects[0] of a directory without files
RunNoProjects ==
    /\ pc = "read"
    /\ todo = <<>>
    /\ results[di] = <<>>
    /\ pc' = "aborted"
    /\ err' = "IndexError"
    /\ UNCHANGED <<dirs, di, todo, results, out>>

\* Run.__init__ returns and main goes on to the next directory
RunNext ==
    /\ pc = "read"
    /\ todo = <<>>
    /\ results[di] # <<>>
    /\ di < Len(dirs)
    /\ out' = Append(out, Run(results[di]))
    /\ di' = di + 1
    /\ todo' \in Orders(DOMAIN dirs[di + 1])
    /\ results' = Append(results, <<>>)
    /\ UNCHANGED <<dirs, pc, err>>

\* the last Run.__init__ returns
RunLast ==
    /\ pc = "read"
    /\ todo = <<>>
    /\ results[di] # <<>>
    /\ di = Len(dirs)
    /\ out' = Append(out, Run(results[di]))
    /\ pc' = "plot"
    /\ UNCHANGED <<dirs, di, todo, results, err>>

\* plot_runs_per_project looks every project of the first run up in every run
AllProjectsFound == \A r \in 1..Len(out) : out[1].names \subseteq out[r].names

PlotRuns ==
    /\ pc = "plot"
    /\ AllProjectsFound
    /\ pc' = "done"
    /\ UNCHANGED <<dirs, di, todo, results, out, err>>

\* run.get_project(project_name) is None
PlotMissingProject ==
    /\ pc = "plot"
    /\ ~AllProjectsFound
    /\ pc' = "aborted"
    /\ err' = "AttributeError"
    /\ UNCHANGED <<dirs, di, todo, results, out>>

NextAnalyze ==
    \/ ReadProject
    \/ ReadParseError
    \/ ProjectKeyError
    \/ RunNoProjects
    \/ RunNext
    \/ RunLast
    \/ PlotRuns
    \/ PlotMissingProject

-----------------------------------------------------------------------------
(* inputs of analyze.py *)

\* a result document with every key Project.__init__ reads
AnalyzeDoc(name, verified, errors) ==
    ("runner" :> (("run_configuration" :>
                      (("name" :> name) @@ ("refspec" :> <<"m", "a", "i", "n">>)))
                      @@ ("label" :> <<"r", "u", "n">>)
                      @@ ("date" :> <<"2", "0", "2", "4">>)))
        @@ ("verification-results" :>
                (("verified" :> verified) @@ ("errors" :> errors)))
        @@ BreakdownDoc(<<Timed(fn_A, 100)>>)

RECURSIVE Without(_, _)
\* the document without the key at the end of the path
Without(d, path) ==
    IF Len(path) = 1 THEN [k \in DOMAIN d \ {Head(path)} |-> d[k]]
    ELSE [d EXCEPT ![Head(path)] = Without(@, Tail(path))]

\* full documents, documents left without one key, and an older document,
\* which spells the date key "data"
AnalyzeDocs ==
    LET full == AnalyzeDoc(st_a, 3, 1)
        DroppedKeys ==
            {<<"verification-results">>,
             <<"verification-results", "verified">>,
             <<"verification-results", "errors">>,
             <<"runner", "label">>,
             <<"runner", "date">>,
             <<"times-ms", "smt">>}
        DataDoc ==
            [full EXCEPT !["runner"] =
                 Without(@, <<"date">>) @@ ("data" :> full["runner"]["date"])]
    IN  {AnalyzeDoc(n, v, 1) : n \in {st_a, st_b}, v \in {0, 3}}
            \cup {Without(full, path) : path \in DroppedKeys}
            \cup {DataDoc}

AnalyzeDirs ==
    Directories({st_a, st_b}, {GoodFile(d) : d \in AnalyzeDocs} \cup {BadFile})

InitAnalyze ==
    \E ds \in Invocations(AnalyzeDirs,
                          {EmptyDir,
                           st_a :> GoodFile(AnalyzeDoc(st_a, 3, 1)),
                           st_b :> GoodFile(AnalyzeDoc(st_b, 5, 0))}) :
        StartAnalyze(ds)

SpecAnalyze == InitAnalyze /\ [][NextAnalyze]_vars

-----------------------------------------------------------------------------
(* properties of the reports *)

Single == Len(dirs) = 1
Comparison == Len(dirs) = 2

OfKind(kinds) == SelectSeq(out, LAMBDA l : l.kind \in kinds)
Rows == OfKind({"row"})

\* the file stems of the old and of the new directory
OldStems == DOMAIN dirs[1]
NewStems == DOMAIN dirs[2]

\* a comparison report has been printed
ComparisonDone == pc = "done" /\ Comparison /\ Rows # <<>>

\* C1: the comparison summary has exactly one row per stem of old or new, so
\* |old| + |new| - |old and new| rows; a stem of new only has the status cell
\* "(new)", a stem of old only "(removed)", a stem of both neither tag.
C1_ComparisonPairing ==
    ComparisonDone =>
        /\ {Rows[i].stem : i \in 1..Len(Rows)} = OldStems \cup NewStems
        /\ Len(Rows) = Cardinality(OldStems) + Cardinality(NewStems)
                           - Cardinality(OldStems \cap NewStems)
        /\ \A i \in 1..Len(Rows) :
               LET st == Rows[i].stem
                   status == Rows[i].cells[3]
               IN  /\ st \in NewStems \ OldStems => status = S_new
                   /\ st \in OldStems \ NewStems => status = S_removed
                   /\ st \in OldStems \cap NewStems
                          => status # S_new /\ status # S_removed

\* C1 witness: a comparison with a stem of old only, one of new only and one
\* of both has been printed
C1_Witness ==
    /\ ComparisonDone
    /\ OldStems \ NewStems # {}
    /\ NewStems \ OldStems # {}
    /\ OldStems \cap NewStems # {}

\* C3: whenever a requested directory holds no result file, the program prints
\* a "no files found" message and no summary table, in comparison mode too
\* when only one of the two directories is empty.
C3_NoFilesAlwaysReported ==
    pc = "done" =>
        \A d \in 1..Len(dirs) :
            DOMAIN dirs[d] = {} =>
                /\ OfKind({"nofiles"}) # <<>>
                /\ OfKind({"header", "row"}) = <<>>

AnyBadFile == \E d \in 1..Len(dirs) : \E st \in DOMAIN dirs[d] : ~dirs[d][st].ok

\* C4: output is written only after every file of every requested directory
\* has been loaded; when a file fails to parse the program never reports, and
\* it ends with the parser's exception and nothing printed.
C4_NoPartialReport ==
    /\ out # <<>> =>
           /\ Len(results) = Len(dirs)
           /\ \A d \in 1..Len(dirs) :
                  \A st \in DOMAIN dirs[d] :
                      dirs[d][st].ok /\ st \in Keys(results[d])
    /\ AnyBadFile => pc \in {"load", "aborted"} /\ out = <<>>
    /\ pc = "aborted" => err = "JSONDecodeError" /\ out = <<>>

\* C4 witness: the first directory was loaded, a file of the second failed to
\* parse, and the program ended
C4_Witness ==
    /\ pc = "aborted"
    /\ Comparison
    /\ di = 2
    /\ results[1] # <<>>
    /\ out = <<>>

\* the pair (n1, s1) comes before the pair (n2, s2)
PairBefore(n1, s1, n2, s2) == StrLess(n1, n2) \/ (n1 = n2 /\ StrLess(s1, s2))

\* the entries of a report, as (display name, stem) pairs, ascend strictly
Ascending(lines) ==
    \A i, j \in 1..Len(lines) :
        i < j => PairBefore(lines[i].name, lines[i].stem,
                            lines[j].name, lines[j].stem)

\* the record whose display name an identity is listed under
ShownRecord(st) ==
    IF Single THEN RecOf(results[1], st)
    ELSE IF st \in OldStems THEN RecOf(results[1], st)
    ELSE RecOf(results[2], st)

RowNames == [i \in 1..Len(Rows) |-> [name |-> Rows[i].cells[1], stem |-> Rows[i].stem]]
Projects == OfKind({"project"})

\* every sequence holding the entries of the dict res, in any order
Shuffles(res) ==
    {[i \in 1..Len(res) |-> res[o[i]]] : o \in Orders(1..Len(res))}

\* C5: in the summary and in the top-5 report, single-run or comparison, the
\* entries ascend by (display name, stem), an identity of one side only under
\* that side's display name; the output depends only on the set of records,
\* not on the order in which they were loaded or handed out.
C5_SortedEntries ==
    pc = "done" /\ Rows # <<>> =>
        /\ Ascending(RowNames)
        /\ Ascending(Projects)
        /\ \A i \in 1..Len(Rows) :
               Rows[i].cells[1] = ShownRecord(Rows[i].stem).name
        /\ \A i \in 1..Len(Projects) :
               Projects[i].name = ShownRecord(Projects[i].stem).name
        /\ Single =>
               \A r \in Shuffles(results[1]) :
                   out = print_single_summary(r) \o print_top5_single(r)
        /\ Comparison =>
               \A r1 \in Shuffles(results[1]) :
                   \A r2 \in Shuffles(results[2]) :
                       LET o == SortedNames(OldStems \cup NewStems)
                       IN  out = print_comparison_summary(r1, r2, o)
                                     \o print_top5_comparison(r1, r2, o)

\* C5 witness: a comparison was printed in which two entries share a display
\* name and in which the order by display name is not the order by stem
C5_Witness ==
    /\ ComparisonDone
    /\ \E i, j \in 1..Len(Rows) :
           i # j /\ Rows[i].cells[1] = Rows[j].cells[1]
    /\ \E i, j \in 1..Len(Rows) : i < j /\ StrLess(Rows[j].stem, Rows[i].stem)

-----------------------------------------------------------------------------
(* properties of the crate-root resolver *)

st_tools_x == <<"t", "o", "o", "l", "s", "-", "x">>
st_src == <<"s", "r", "c">>

\* the records loaded so far, each with the document it was loaded from
Loaded ==
    UNION {{[stem |-> results[d][i].stem, rec |-> results[d][i].rec,
             data |-> dirs[d][results[d][i].stem].data] :
               i \in 1..Len(results[d])} : d \in 1..Len(results)}

\* what a document declares: its run_configuration, name and crate_roots
Declared(data) == Get(Get(data, "runner", <<>>), "run_configuration", <<>>)
DeclaredName(data) == GetOpt(Declared(data), "name")
DeclaredRoots(data) == Get(Declared(data), "crate_roots", <<>>)

\* the example project: named "a", with crate roots ["a/src", "a/tools/x"]
ExampleA(e) ==
    /\ DeclaredName(e.data) = Some(st_a)
    /\ DeclaredRoots(e.data) = <<cr_a_src, cr_a_tools_x>>

\* C2, as stated: for the project "a" with crate roots ["a/src", "a/tools/x"]
\* the file of stem "a" resolves to "a/src" and the file of stem "a-tools-x"
\* resolves to "a/tools/x".
C2_SpecExample ==
    \A e \in Loaded :
        ExampleA(e) =>
            /\ e.stem = st_a => e.rec.crate_root = Some(cr_a_src)
            /\ e.stem = st_a_tools_x => e.rec.crate_root = Some(cr_a_tools_x)

\* C2, amended: for that project the file of stem "a" resolves to "a/src"; the
\* file of stem "a-tools-x" resolves to the raw suffix "tools-x", because the
\* parents of the two roots, "a" and "a/tools", become "a" and "a-tools"; the
\* stem that resolves to "a/tools/x" is "a-a-tools".
C2_ExampleResolved ==
    \A e \in Loaded :
        ExampleA(e) =>
            /\ e.stem = st_a => e.rec.crate_root = Some(cr_a_src)
            /\ e.stem = st_a_tools_x => e.rec.crate_root = Some(st_tools_x)
            /\ e.stem = st_a_a_tools => e.rec.crate_root = Some(cr_a_tools_x)

\* C2 witness: the file "a-tools-x" of the example project has been loaded and
\* the report printed
C2_Witness ==
    /\ pc = "done"
    /\ \E e \in Loaded : ExampleA(e) /\ e.stem = st_a_tools_x

\* the directory part of a path "x/.../y", its separators replaced by dashes
DashedParent(cr) ==
    LET cut == CHOOSE k \in 1..Len(cr) :
                   cr[k] = "/" /\ \A j \in (k + 1)..Len(cr) : cr[j] # "/"
    IN  [i \in 1..(cut - 1) |-> IF cr[i] = "/" THEN "-" ELSE cr[i]]

\* the places of the declared roots whose dashed parent is the suffix of e's stem
Matches(e) ==
    {i \in 1..Len(DeclaredRoots(e.data)) :
        DashedParent(DeclaredRoots(e.data)[i])
            = Drop(e.stem, Len(e.rec.name) + 1)}

\* e's project declares several roots and e's stem is "<project-name>-<suffix>"
Suffixed(e) ==
    /\ Len(DeclaredRoots(e.data)) > 1
    /\ StartsWith(e.stem, e.rec.name \o <<"-">>)

\* C10: with more than one declared root and a stem "<project-name>-<suffix>",
\* the resolver returns the first declared root whose dashed parent is the
\* suffix, also when several roots share that parent, and the raw suffix when
\* no root matches: name "p2", roots ["p2/src", "p2/lib"], stem "p2-src" give
\* "src".
C10_FirstMatchOrSuffix ==
    \A e \in Loaded :
        /\ Suffixed(e) =>
               IF Matches(e) = {}
               THEN e.rec.crate_root = Some(Drop(e.stem, Len(e.rec.name) + 1))
               ELSE e.rec.crate_root =
                        Some(DeclaredRoots(e.data)[
                                 CHOOSE i \in Matches(e) :
                                     \A j \in Matches(e) : i <= j])
        /\ (/\ DeclaredName(e.data) = Some(st_p2)
            /\ DeclaredRoots(e.data) = <<cr_p2_src, cr_p2_lib>>
            /\ e.stem = st_p2_src) => e.rec.crate_root = Some(st_src)

\* C10 witness: one loaded file whose suffix matches two declared roots, and
\* one whose suffix matches none
C10_Witness ==
    /\ pc = "done"
    /\ \E e \in Loaded : Suffixed(e) /\ Cardinality(Matches(e)) > 1
    /\ \E e \in Loaded : Suffixed(e) /\ Matches(e) = {}

\* the name a file's project goes by: the declared one, else the file's stem
NameOrStem(e) ==
    IF DeclaredName(e.data) = None THEN e.stem ELSE Val(DeclaredName(e.data))

\* e's stem is neither the project's name nor "<project-name>-<suffix>"
Unrelated(e) ==
    /\ e.stem # NameOrStem(e)
    /\ ~StartsWith(e.stem, NameOrStem(e) \o <<"-">>)

\* C11: the crate_root of a loaded record is null exactly when its project
\* declares at most one crate root, whatever the file's stem; with more than
\* one declared root, a stem that neither is the project's name nor starts
\* with "<project-name>-" gets the first declared root.
C11_NullIffAtMostOneRoot ==
    \A e \in Loaded :
        /\ e.rec.crate_root = None <=> Len(DeclaredRoots(e.data)) <= 1
        /\ Len(DeclaredRoots(e.data)) > 1 /\ Unrelated(e)
               => e.rec.crate_root = Some(DeclaredRoots(e.data)[1])

\* C11 witness: a file whose project declares several roots and whose stem is
\* unrelated to the project's name has been loaded and the report printed
C11_Witness ==
    /\ pc = "done"
    /\ \E e \in Loaded :
           /\ Len(DeclaredRoots(e.data)) > 1
           /\ DeclaredName(e.data) # None
           /\ Unrelated(e)
           /\ e.rec.crate_root # None

-----------------------------------------------------------------------------
(* properties of the tables *)

Headers == OfKind({"header"})

\* C7: in every summary table, single-run or comparison, each column is at
\* least as wide as its header label and as every cell in it, so every row is
\* as long as the header row, whatever the magnitude of the data.
C7_ColumnsAligned ==
    pc = "done" /\ Rows # <<>> =>
        LET h == Headers[1]
            shown == IF h.show_crate THEN 1..6 ELSE (1..6) \ {2}
        IN  /\ \A k \in shown : Len(h.cells[k]) <= h.widths[k]
            /\ \A i \in 1..Len(Rows) :
                   /\ \A k \in shown : Len(Rows[i].cells[k]) <= h.widths[k]
                   /\ Len(Rows[i].text) = Len(h.text)

\* the part of C7 that the comparison summary meets
ComparisonAligned == Comparison => C7_ColumnsAligned

-----------------------------------------------------------------------------
(* properties of absent fields *)

RECURSIVE HasPath(_, _)
\* the document holds the nested key path
HasPath(d, path) ==
    IF path = <<>> THEN TRUE
    ELSE Head(path) \in DOMAIN d /\ HasPath(d[Head(path)], Tail(path))

RECURSIVE AtPath(_, _, _)
\* the value at the nested key path, or the default when a key is absent
AtPath(d, path, default) ==
    IF path = <<>> THEN d
    ELSE IF Head(path) \in DOMAIN d THEN AtPath(d[Head(path)], Tail(path), default)
    ELSE default

\* the functions of a document: the places (module, entry) of its breakdowns
DocModules(data) == AtPath(data, <<"times-ms", "smt", "smt-run-module-times">>, <<>>)
DocBreakdown(data, md) == AtPath(DocModules(data)[md], <<"function-breakdown">>, <<>>)
DocFunctions(data) ==
    UNION {{<<md, k>> : k \in 1..Len(DocBreakdown(data, md))} :
              md \in 1..Len(DocModules(data))}
DocFn(data, at) == DocBreakdown(data, at[1])[at[2]]
Untimed(data) == {at \in DocFunctions(data) : "time" \notin DOMAIN DocFn(data, at)}
Named(data, nm) ==
    {at \in DocFunctions(data) : AtPath(DocFn(data, at), <<"function">>, <<>>) = nm}

EndsWith(s, p) == Len(s) >= Len(p) /\ SubSeq(s, Len(s) - Len(p) + 1, Len(s)) = p

\* the cell shows x for side d: alone, or left (old) or right (new) of the arrow
Shows(d, cell, x) ==
    \/ cell = x
    \/ d = 1 /\ StartsWith(cell, x \o Arrow)
    \/ d = 2 /\ EndsWith(cell, Arrow \o x)

\* the sides on which a stem has a file
Sides(st) == {d \in 1..Len(dirs) : st \in DOMAIN dirs[d]}

\* C9: with any choice of optional fields absent from a document that parses,
\* loading and rendering never raise: every file is loaded and the report is
\* printed; an absent count shows as "-", an absent total time as "N/A", an
\* absent runner success as "ERROR", a function without a time as "N/A"; and
\* the functions of a record are empty exactly when every module's breakdown
\* is empty or absent.
C9_AbsentFields ==
    /\ ~AnyBadFile => pc # "aborted" /\ err = ""
    /\ \A e \in Loaded :
           e.rec.functions = <<>>
               <=> \A md \in 1..Len(DocModules(e.data)) :
                       DocBreakdown(e.data, md) = <<>>
    /\ pc = "done" =>
           /\ \A d \in 1..Len(dirs) : Keys(results[d]) = DOMAIN dirs[d]
           /\ {Rows[i].stem : i \in 1..Len(Rows)}
                  = UNION {DOMAIN dirs[d] : d \in 1..Len(dirs)}
           /\ \A i \in 1..Len(Rows) :
                  \A d \in Sides(Rows[i].stem) :
                      LET data == dirs[d][Rows[i].stem].data
                          c == Rows[i].cells
                      IN  /\ Shows(d, c[4], S_Dash)
                                 <=> ~HasPath(data, <<"verification-results", "verified">>)
                          /\ Shows(d, c[5], S_Dash)
                                 <=> ~HasPath(data, <<"verification-results", "errors">>)
                          /\ Shows(d, c[6], S_NA)
                                 <=> ~HasPath(data, <<"times-ms", "total">>)
                          /\ Single \/ Cardinality(Sides(Rows[i].stem)) = 2 =>
                                 (Shows(d, c[3], S_ERROR)
                                      <=> ~HasPath(data, <<"runner", "success">>))
           /\ Single =>
                  \A st \in DOMAIN dirs[1] :
                      LET data == dirs[1][st].data
                          fns == SelectSeq(OfKind({"fn"}), LAMBDA l : l.stem = st)
                      IN  /\ Len(fns) = Cardinality(DocFunctions(data))
                          /\ Len(SelectSeq(fns, LAMBDA l : l.cell = Sp(4) \o S_NA))
                                 = Cardinality(Untimed(data))
           /\ \A i \in 1..Len(OfKind({"fnrow"})) :
                  LET r == OfKind({"fnrow"})[i]
                  IN  \A d \in Sides(r.stem) :
                          LET data == dirs[d][r.stem].data
                              same == Named(data, r.name)
                          IN  /\ r.cells[1 + d] = S_NA
                                     => same \cap Untimed(data) # {}
                              /\ same # {} /\ same \subseteq Untimed(data)
                                     => r.cells[1 + d] = S_NA

\* C9 witness: a comparison was printed whose old document lacks the runner,
\* the verified count and the total time and holds a function without a time,
\* and whose new document holds every field
C9_Witness ==
    /\ pc = "done"
    /\ Comparison
    /\ OldStems = {st_a} /\ NewStems = {st_a}
    /\ dirs[2][st_a].data = FullDoc
    /\ LET data == dirs[1][st_a].data
       IN  /\ ~HasPath(data, <<"runner">>)
           /\ HasPath(data, <<"verification-results">>)
           /\ ~HasPath(data, <<"verification-results", "verified">>)
           /\ HasPath(data, <<"times-ms">>)
           /\ ~HasPath(data, <<"times-ms", "total">>)
           /\ Untimed(data) # {}

-----------------------------------------------------------------------------
(* properties of the per-function comparison *)

\* the functions of the record loaded for a stem in directory d, none when
\* the directory has no such record
FunctionsIn(d, st) ==
    IF st \in Keys(results[d]) THEN RecOf(results[d], st).functions ELSE <<>>

\* the time a function is ranked by: a missing time ranks as 0
RankedTime(fn) == IF fn.time_ms = None THEN 0 ELSE Val(fn.time_ms)

\* how many functions of fns come before the one at place i when ranked by
\* time descending, functions of equal time staying in their order
Rank(fns, i) ==
    Cardinality({j \in 1..Len(fns) :
                    \/ RankedTime(fns[j]) > RankedTime(fns[i])
                    \/ RankedTime(fns[j]) = RankedTime(fns[i]) /\ j < i})

\* the places of the five top-ranked functions, and those that hold a name
TopPlaces(fns) == {i \in 1..Len(fns) : Rank(fns, i) < TopN}
TopNamed(fns, nm) == {i \in TopPlaces(fns) : fns[i].name = nm}
TopNames(fns) == {fns[i].name : i \in TopPlaces(fns)}

BestRank(fns, nm) ==
    LET i == CHOOSE i \in TopNamed(fns, nm) :
                 \A j \in TopNamed(fns, nm) : Rank(fns, i) <= Rank(fns, j)
    IN  Rank(fns, i)

\* where a name is first seen going through old's top 5, then new's
FirstSeen(old, new, nm) ==
    IF TopNamed(old, nm) # {} THEN BestRank(old, nm)
    ELSE TopN + BestRank(new, nm)

HasFunction(fns, nm) == \E i \in 1..Len(fns) : fns[i].name = nm

\* the per-function rows printed for a stem
FnRows(st) == SelectSeq(OfKind({"fnrow"}), LAMBDA l : l.stem = st)

\* the breakdowns of the specification's example, as sets of (name, time)
NameTimes(fns) == {<<fns[i].name, fns[i].time_ms>> : i \in 1..Len(fns)}
ExampleOld == {<<fn_A, Some(100)>>, <<<<"B">>, Some(90)>>}
ExampleNew == {<<<<"B">>, Some(95)>>, <<<<"C">>, Some(80)>>}
IsExample(st) ==
    /\ NameTimes(FunctionsIn(1, st)) = ExampleOld /\ Len(FunctionsIn(1, st)) = 2
    /\ NameTimes(FunctionsIn(2, st)) = ExampleNew /\ Len(FunctionsIn(2, st)) = 2

S_ExampleChange ==
    <<"+", "5", " ", "m", "s", " ", "(", "+", "5", ".", "6", "%", ")">>

\* C6: in a comparison, the per-function rows of an identity list exactly the
\* names of old's five top-ranked functions (time descending, a missing time
\* as 0) and of new's, each once, old's in rank order and then new's not yet
\* seen; the old cell is "(new)" exactly when old has no function of that
\* name, the new cell "(gone)" exactly when new has none, and "N/A" stands for
\* a function the side has without a time.  For old {A:100, B:90} and new
\* {B:95, C:80} the rows are A, B, C with A "(gone)", C "(new)" and B's change
\* "+5 ms (+5.6%)".
C6_Top5Union ==
    pc = "done" /\ Comparison =>
        \A st \in OldStems \cup NewStems :
            LET old == FunctionsIn(1, st)
                new == FunctionsIn(2, st)
                rows == FnRows(st)
                n == Len(rows)
            IN  /\ {rows[i].name : i \in 1..n} = TopNames(old) \cup TopNames(new)
                /\ \A i, j \in 1..n :
                       i < j => FirstSeen(old, new, rows[i].name)
                                    < FirstSeen(old, new, rows[j].name)
                /\ \A i \in 1..n :
                       /\ rows[i].cells[2] = S_new
                              <=> ~HasFunction(old, rows[i].name)
                       /\ rows[i].cells[3] = S_gone
                              <=> ~HasFunction(new, rows[i].name)
                       /\ \A side \in 1..2 :
                              LET fns == IF side = 1 THEN old ELSE new
                                  same == {k \in 1..Len(fns) :
                                              fns[k].name = rows[i].name}
                                  cell == rows[i].cells[1 + side]
                              IN  /\ cell = S_NA
                                         => \E k \in same : fns[k].time_ms = None
                                  /\ same # {}
                                         /\ (\A k \in same : fns[k].time_ms = None)
                                         => cell = S_NA
                                  /\ same # {}
                                         /\ (\A k \in same : fns[k].time_ms # None)
                                         => \E k \in same :
                                                cell = IntStr(Val(fns[k].time_ms))
                                                           \o S_ms
                /\ IsExample(st) =>
                       /\ [i \in 1..n |-> rows[i].name] = <<fn_A, <<"B">>, <<"C">>>>
                       /\ rows[1].cells[3] = S_gone
                       /\ rows[3].cells[2] = S_new
                       /\ rows[2].cells[4] = S_ExampleChange

\* C6 witness: a comparison lists a function that old has but ranks below its
\* five slowest, so that the name comes from new's top 5 and the old cell
\* still shows old's time
C6_Witness ==
    /\ pc = "done"
    /\ Comparison
    /\ \E i \in 1..Len(FnRows(st_a)) :
           LET old == FunctionsIn(1, st_a)
               row == FnRows(st_a)[i]
           IN  /\ HasFunction(old, row.name)
               /\ row.name \notin TopNames(old)
               /\ Len(old) > TopN
               /\ row.cells[2] # S_new
               /\ row.cells[3] # S_gone

-----------------------------------------------------------------------------
(* properties of the run totals *)

\* the keys Project.__init__ reads besides the two counts
OtherKeys ==
    {<<"runner", "run_configuration", "name">>,
     <<"runner", "run_configuration", "refspec">>,
     <<"runner", "label">>,
     <<"times-ms", "smt", "smt-run-module-times">>}

\* a document lacks nothing but, at most, its counts
CompleteButCounts(data) ==
    /\ \A path \in OtherKeys : HasPath(data, path)
    /\ HasPath(data, <<"runner", "date">>) \/ HasPath(data, <<"runner", "data">>)
    /\ \A md \in 1..Len(DocModules(data)) :
           "function-breakdown" \in DOMAIN DocModules(data)[md]
    /\ \A at \in DocFunctions(data) :
           {"function", "time"} \subseteq DOMAIN DocFn(data, at)

\* the sum over a directory's files of the count at path, an absent one as 0
CountOf(dir, path) ==
    LET stems == SortedNames(DOMAIN dir)
    IN  Sum([i \in 1..Len(stems) |-> AtPath(dir[stems[i]].data, path, 0)])

\* C8: the totals of a Run are the sums of verified and of errors over the
\* records of its directory, a record without the count adding 0, and a
\* record without the count does not make the aggregation raise.
C8_AbsentCountsAsZero ==
    /\ \A r \in 1..Len(out) :
           /\ out[r].total_solved
                  = CountOf(dirs[r], <<"verification-results", "verified">>)
           /\ out[r].errors
                  = CountOf(dirs[r], <<"verification-results", "errors">>)
    /\ err = "KeyError" => ~CompleteButCounts(dirs[di][Head(todo)].data)

\* the totals that analyze.py does produce are the sums of the counts
C8_TotalsOfCompleteRecords ==
    \A r \in 1..Len(out) :
        /\ out[r].total_solved
               = CountOf(dirs[r], <<"verification-results", "verified">>)
        /\ out[r].errors
               = CountOf(dirs[r], <<"verification-results", "errors">>)
        /\ \A st \in DOMAIN dirs[r] :
               /\ HasPath(dirs[r][st].data, <<"verification-results", "verified">>)
               /\ HasPath(dirs[r][st].data, <<"verification-results", "errors">>)

=============================================================================
